---- MODULE Spec2Model ----
(***************************************************************************)
(* Model of src/src/dav.py: the stat cache (DavCache) and the WebDAV       *)
(* client (DavClient) built on it.                                         *)
(*                                                                         *)
(* Strings are sequences of one-character strings, so that the path        *)
(* normaliser, the percent coding and the split/join of remove_entry are   *)
(* computed the way the code computes them.  The transport and the server  *)
(* are the environment: every request is answered with a status and a      *)
(* body drawn from small sets.  time() is the integer clock `now`.         *)
(***************************************************************************)
EXTENDS Integers, Sequences, FiniteSets, TLC

VARIABLES base_href, cached, now, gen, last, statted, nops

vars == <<base_href, cached, now, gen, last, statted, nops>>

(***************************************************************************)
(* Bounds of the model.                                                    *)
(***************************************************************************)
\* number of client calls in one behaviour
MaxOps == 3
\* the clock stops advancing here
MaxTime == 11

(***************************************************************************)
(* Program constants.                                                      *)
(***************************************************************************)
STATCACHEDURATION == 10

EACCES == 13
ENOENT == 2

\* stat.S_IFDIR | 0o500 and stat.S_IFREG | 0o400
S_IFDIR_0o500 == 16704
S_IFREG_0o400 == 33024

\* DavClient._CODES
_CODES == (403 :> EACCES) @@ (404 :> ENOENT)

(***************************************************************************)
(* Strings.                                                                *)
(***************************************************************************)
SLASH == "/"

\* s.endswith('/')
endswith(s, c) == Len(s) > 0 /\ s[Len(s)] = c

\* '//' in s
has_dslash(s) == \E i \in 1..(Len(s) - 1) : s[i] = SLASH /\ s[i + 1] = SLASH

\* s.replace('//', '/'): one left-to-right pass over non-overlapping matches
RECURSIVE replace_dslash(_)
replace_dslash(s) ==
    IF Len(s) < 2 THEN s
    ELSE IF s[1] = SLASH /\ s[2] = SLASH
         THEN <<SLASH>> \o replace_dslash(SubSeq(s, 3, Len(s)))
         ELSE <<s[1]>> \o replace_dslash(Tail(s))

\* while '//' in href: href = href.replace('//', '/')
RECURSIVE collapse(_)
collapse(s) == IF has_dslash(s) THEN collapse(replace_dslash(s)) ELSE s

\* if href.endswith('/'): href = href[:-1]
strip_slash(s) == IF endswith(s, SLASH) THEN SubSeq(s, 1, Len(s) - 1) ELSE s

\* the characters urllib.parse.quote leaves alone, among those of the model
SafeChars == {"/", "a", "b", "d", "s", "w", "0", "2", "5"}

\* the percent escapes of the characters of the model that are not safe
Escapes == (" " :> <<"%", "2", "0">>) @@ ("%" :> <<"%", "2", "5">>)

\* urllib.parse.quote(s)
RECURSIVE quote(_)
quote(s) ==
    IF s = <<>> THEN <<>>
    ELSE (IF s[1] \in SafeChars THEN <<s[1]>> ELSE Escapes[s[1]])
         \o quote(Tail(s))

\* urllib.parse.unquote(s): an escape is decoded, anything else is kept
RECURSIVE unquote(_)
unquote(s) ==
    IF s = <<>> THEN <<>>
    ELSE IF /\ Len(s) >= 3
            /\ \E c \in DOMAIN Escapes : Escapes[c] = SubSeq(s, 1, 3)
         THEN <<CHOOSE c \in DOMAIN Escapes : Escapes[c] = SubSeq(s, 1, 3)>>
              \o unquote(SubSeq(s, 4, Len(s)))
         ELSE <<s[1]>> \o unquote(Tail(s))

\* s.split('/')
RECURSIVE split(_)
split(s) ==
    IF \A i \in 1..Len(s) : s[i] # SLASH THEN <<s>>
    ELSE LET i == CHOOSE k \in 1..Len(s) :
                      s[k] = SLASH /\ \A j \in 1..(k - 1) : s[j] # SLASH
         IN  <<SubSeq(s, 1, i - 1)>> \o split(SubSeq(s, i + 1, Len(s)))

\* '/'.join(parts)
RECURSIVE join(_)
join(parts) ==
    IF parts = <<>> THEN <<>>
    ELSE IF Len(parts) = 1 THEN parts[1]
    ELSE parts[1] \o <<SLASH>> \o join(Tail(parts))

(***************************************************************************)
(* CacheItem and DavCache.  The cache is a function from keys to items.    *)
(***************************************************************************)
\* the value None of Optional[bytes]
None == [tag |-> "None"]

\* bytes holding a multistatus document: the children of its root
Xml(root) == [tag |-> "xml", root |-> root]

CacheItem(data, expiration) == [data |-> data, expiration |-> expiration]

\* what dict.get answers for a key that is absent
NoItem == [tag |-> "NoItem"]

\* CacheItem.expired, at time t
expired_late(item, t) == t > item.expiration + 1
expired_early(item, t) == t >= item.expiration
expired(item, t) == t > item.expiration

\* DavCache.insert, at time t
insert(c, href, data, expiration, t) ==
    [k \in DOMAIN c \cup {href} |->
        IF k = href THEN CacheItem(data, t + expiration) ELSE c[k]]

\* del self.cached[href]
del(c, href) == [k \in DOMAIN c \ {href} |-> c[k]]

\* self.cached.get(href)
lookup(c, href) == IF href \in DOMAIN c THEN c[href] ELSE NoItem

\* a get that renews the lifetime of the item it returns
get_touch(c, href, t) ==
    LET item == lookup(c, href)
    IN  IF item = NoItem
        THEN [keyerror |-> TRUE, data |-> None, cached |-> c]
        ELSE IF ~expired(item, t)
        THEN [keyerror |-> FALSE, data |-> item.data,
              cached |-> insert(c, href, item.data, STATCACHEDURATION, t)]
        ELSE [keyerror |-> TRUE, data |-> None, cached |-> del(c, href)]

\* a get that leaves the expired item where it is
get_keep(c, href, t) ==
    LET item == lookup(c, href)
    IN  IF item = NoItem
        THEN [keyerror |-> TRUE, data |-> None, cached |-> c]
        ELSE IF ~expired(item, t)
        THEN [keyerror |-> FALSE, data |-> item.data, cached |-> c]
        ELSE [keyerror |-> TRUE, data |-> None, cached |-> c]

\* DavCache.get, at time t: whether it raises KeyError, the data it returns
\* otherwise, and the cache it leaves
get(c, href, t) ==
    LET item == lookup(c, href)
    IN  IF item = NoItem
        THEN [keyerror |-> TRUE, data |-> None, cached |-> c]
        ELSE IF ~expired(item, t)
        THEN [keyerror |-> FALSE, data |-> item.data, cached |-> c]
        ELSE [keyerror |-> TRUE, data |-> None, cached |-> del(c, href)]

\* the keys remove_entry(href, parents=True) deletes
partial_hrefs(href) ==
    LET parts == split(href)
    IN  UNION {{join(SubSeq(parts, 1, i)), join(SubSeq(parts, 1, i)) \o <<SLASH>>} :
               i \in 1..Len(parts)}

\* DavCache.remove_entry
remove_entry_short(c, href, parents) ==
    IF parents = FALSE
    THEN del(c, href)
    ELSE LET parts == split(href)
             gone == UNION {{join(SubSeq(parts, 1, i)),
                             join(SubSeq(parts, 1, i)) \o <<SLASH>>} :
                            i \in 1..(Len(parts) - 1)}
         IN  [k \in DOMAIN c \ gone |-> c[k]]
\* a remove_entry that, with parents, also takes what is below href
remove_entry_subtree(c, href, parents) ==
    IF parents = FALSE
    THEN del(c, href)
    ELSE [k \in {x \in DOMAIN c \ partial_hrefs(href) :
                    ~(/\ Len(x) > Len(href) + 1
                      /\ SubSeq(x, 1, Len(href) + 1) = href \o <<SLASH>>)}
            |-> c[k]]
\* a remove_entry that, without parents, also takes the key with a slash
remove_entry_slashed(c, href, parents) ==
    IF parents = FALSE
    THEN del(del(c, href), href \o <<SLASH>>)
    ELSE [k \in DOMAIN c \ partial_hrefs(href) |-> c[k]]
remove_entry(c, href, parents) ==
    IF parents = FALSE
    THEN del(c, href)
    ELSE [k \in DOMAIN c \ partial_hrefs(href) |-> c[k]]

(***************************************************************************)
(* Exceptions and the status mapping.                                      *)
(***************************************************************************)
NoExc == [kind |-> "none"]
FuseOSError(errno) == [kind |-> "FuseOSError", errno |-> errno]
HttpError(code) == [kind |-> "Exception", msg |-> "Http returned", code |-> code]
InvalidStatus == [kind |-> "Exception", msg |-> "Invalid status"]
\* what the element tree raises on a document that lacks an element
ParseError(what) == [kind |-> what]

\* DavClient.error_from_status_code
error_from_status_code_swapped(code) ==
    IF code = 403 THEN FuseOSError(ENOENT)
    ELSE IF code = 404 THEN FuseOSError(EACCES)
    ELSE HttpError(code)
error_from_status_code(code) ==
    IF code \in DOMAIN _CODES
    THEN FuseOSError(_CODES[code])
    ELSE HttpError(code)

(***************************************************************************)
(* Paths.                                                                  *)
(***************************************************************************)
\* DavClient._fixhref, for a session whose base path is base
_fixhref(base, href) == quote(base \o strip_slash(collapse(href)))

(***************************************************************************)
(* Multistatus documents.  A response element carries its href and the     *)
(* property elements that are present in its prop element.                 *)
(***************************************************************************)
PropNames == {"getcontentlength", "getlastmodified", "resourcetype"}

Response(href, present, length, collection) ==
    [href |-> href, present |-> present, length |-> length,
     collection |-> collection]

Props(st_mode, size) ==
    [st_mode |-> st_mode, st_size |-> size, st_nlink |-> 1, st_ctime |-> 0,
     st_mtime |-> 0, st_atime |-> 0, st_blksize |-> 1024,
     st_blocks |-> (size + 511) \div 512]

NoValue == [tag |-> "None"]

\* a parser that fills in what the document lacks: length 0, no type
parse_props_defaulted(data) ==
    IF data.root = <<>> THEN [exc |-> ParseError("IndexError"), ret |-> NoValue]
    ELSE LET r == data.root[1]
             size == IF "getcontentlength" \in r.present THEN r.length ELSE 0
             dir == "resourcetype" \in r.present /\ r.collection
         IN  [exc |-> NoExc,
              ret |-> Props(IF dir THEN S_IFDIR_0o500 ELSE S_IFREG_0o400, size)]

\* the tail of DavClient.stat: from the bytes to the Props, or the
\* exception raised on the way
parse_props(data) ==
    IF data.root = <<>> THEN [exc |-> ParseError("IndexError"), ret |-> NoValue]
    ELSE LET r == data.root[1]
         IN  IF "getcontentlength" \notin r.present
             THEN [exc |-> ParseError("AttributeError"), ret |-> NoValue]
             ELSE IF "getlastmodified" \notin r.present
             THEN [exc |-> ParseError("AttributeError"), ret |-> NoValue]
             ELSE IF "resourcetype" \notin r.present
             THEN [exc |-> ParseError("TypeError"), ret |-> NoValue]
             ELSE [exc |-> NoExc,
                   ret |-> Props(IF r.collection THEN S_IFDIR_0o500
                                 ELSE S_IFREG_0o400, r.length)]

(***************************************************************************)
(* The transport.  A request that was sent is recorded with the status it *)
(* was answered with.  The default headers (the fixed Authorization        *)
(* header) are the same on every request and are left out.                 *)
(***************************************************************************)
Request(method, path, headers, status) ==
    [method |-> method, path |-> path, headers |-> headers, status |-> status]

NoHeaders == <<>>

\* a stat that asks again when the answer is a failure
stat_href_retry(c, href, t, answer) ==
    LET item == lookup(c, href)
        g == get(c, href, t)
    IN  IF ~g.keyerror
        THEN IF g.data = None
             THEN [cached |-> g.cached, sent |-> <<>>, item |-> item,
                   exc |-> InvalidStatus, ret |-> NoValue]
             ELSE [cached |-> g.cached, sent |-> <<>>, item |-> item,
                   exc |-> parse_props(g.data).exc,
                   ret |-> parse_props(g.data).ret]
        ELSE LET r == Request("PROPFIND", href, NoHeaders, answer.status)
             IN  IF answer.status # 207
                 THEN [cached |-> insert(g.cached, href, None, STATCACHEDURATION, t),
                       sent |-> <<r, r>>, item |-> item,
                       exc |-> error_from_status_code(answer.status),
                       ret |-> NoValue]
                 ELSE [cached |-> insert(g.cached, href, answer.data,
                                         STATCACHEDURATION, t),
                       sent |-> <<r>>, item |-> item,
                       exc |-> parse_props(answer.data).exc,
                       ret |-> parse_props(answer.data).ret]

\* DavClient.stat on the normalised href, at time t; answer is what the
\* server says if it is asked
stat_href(c, href, t, answer) ==
    LET item == lookup(c, href)
        g == get(c, href, t)
    IN  IF ~g.keyerror
        THEN IF g.data = None
             THEN [cached |-> g.cached, sent |-> <<>>, item |-> item,
                   exc |-> InvalidStatus, ret |-> NoValue]
             ELSE [cached |-> g.cached, sent |-> <<>>, item |-> item,
                   exc |-> parse_props(g.data).exc,
                   ret |-> parse_props(g.data).ret]
        ELSE LET r == Request("PROPFIND", href, NoHeaders, answer.status)
             IN  IF answer.status # 207
                 THEN [cached |-> insert(g.cached, href, None, STATCACHEDURATION, t),
                       sent |-> <<r>>, item |-> item,
                       exc |-> error_from_status_code(answer.status),
                       ret |-> NoValue]
                 ELSE [cached |-> insert(g.cached, href, answer.data,
                                         STATCACHEDURATION, t),
                       sent |-> <<r>>, item |-> item,
                       exc |-> parse_props(answer.data).exc,
                       ret |-> parse_props(answer.data).ret]

\* DavClient.delete on the normalised href, answered with status
delete_href_eager(c, href, status) ==
    [cached |-> remove_entry(c, href, TRUE),
     sent |-> <<Request("DELETE", href, NoHeaders, status)>>,
     exc |-> IF status # 204 THEN error_from_status_code(status) ELSE NoExc]
delete_href(c, href, status) ==
    [cached |-> IF status # 204 THEN c ELSE remove_entry(c, href, TRUE),
     sent |-> <<Request("DELETE", href, NoHeaders, status)>>,
     exc |-> IF status # 204 THEN error_from_status_code(status) ELSE NoExc]

\* DavClient.move on the normalised hrefs, answered with status
move_href(c, src, dest, status) ==
    [cached |-> IF status # 201 THEN c ELSE remove_entry(c, src, TRUE),
     sent |-> <<Request("MOVE", src,
                        ("Overwrite" :> <<"F">>) @@ ("Destination" :> dest),
                        status)>>,
     exc |-> IF status # 201 THEN error_from_status_code(status) ELSE NoExc]

\* the Range header of DavClient.read: the bounds of bytes=lo-hi
range_header_unclamped(start, end, st_size) == [lo |-> start, hi |-> end - 1]
range_header(start, end, st_size) ==
    IF end < st_size
    THEN [lo |-> start, hi |-> end - 1]
    ELSE [lo |-> start, hi |-> st_size - 1]

\* the bytes a 206 answer carries
Bytes == [tag |-> "bytes"]

\* read that goes on to the GET when stat has raised, as if the resource
\* were empty
read_href_unguarded(c, href, start, end, t, answer, status) ==
    LET st == stat_href(c, href, t, answer)
        size == IF st.exc # NoExc THEN 0 ELSE st.ret.st_size
        r == Request("GET", href, "Range" :> range_header(start, end, size),
                     status)
    IN  [cached |-> st.cached, sent |-> st.sent \o <<r>>, item |-> st.item,
         exc |-> IF status # 206 THEN error_from_status_code(status)
                 ELSE NoExc,
         ret |-> IF status # 206 THEN NoValue ELSE Bytes]

\* DavClient.read on the normalised href (stat and read normalise the same
\* argument), at time t; answer is what the server says to the PROPFIND of
\* stat if it is asked, status what it says to the GET
read_href(c, href, start, end, t, answer, status) ==
    LET st == stat_href(c, href, t, answer)
        r == Request("GET", href,
                     "Range" :> range_header(start, end, st.ret.st_size),
                     status)
    IN  IF st.exc # NoExc
        THEN st
        ELSE [cached |-> st.cached, sent |-> st.sent \o <<r>>, item |-> st.item,
              exc |-> IF status # 206 THEN error_from_status_code(status)
                      ELSE NoExc,
              ret |-> IF status # 206 THEN NoValue ELSE Bytes]

(***************************************************************************)
(* The generator DavClient.list_files returns.                            *)
(***************************************************************************)
\* urllib.parse.unquote(partial).split('/')[-1]
child_name(partial) ==
    LET parts == split(unquote(partial)) IN parts[Len(parts)]

\* the index of the first element from i on whose name is yielded, or
\* Len(root) + 1 when the loop runs to its end
next_yield(root, i) ==
    IF \E j \in i..Len(root) : child_name(root[j].href) # <<>>
    THEN CHOOSE j \in i..Len(root) :
            /\ child_name(root[j].href) # <<>>
            /\ \A k \in i..(j - 1) : child_name(root[k].href) = <<>>
    ELSE Len(root) + 1

\* the insertions of the loop body for the elements i..j, in order
RECURSIVE insert_elements(_, _, _, _, _)
insert_elements(c, root, i, j, t) ==
    IF i > j \/ i > Len(root) THEN c
    ELSE insert_elements(
            insert(c, root[i].href, Xml(<<root[i]>>), STATCACHEDURATION, t),
            root, i + 1, j, t)

NoGen == [state |-> "none"]

\* a generator that has run to its end or raised: its frame is gone
Exhausted == [state |-> "finished"]

\* a generator that was created and has not run yet; requests counts the
\* requests its body has sent, kept is lowered when a delete or a move goes
\* through while it is suspended
NewGen(href) ==
    [state |-> "created", href |-> href, root |-> <<>>, idx |-> 1,
     yielded |-> <<>>, at |-> 0, clean |-> TRUE, requests |-> 0, kept |-> TRUE]

StopIteration == [tag |-> "StopIteration"]

\* the name a resumption of the generator yields
Yield(name) == [tag |-> "yield", name |-> name]

\* a resumption that yields the name of an element before it inserts it
list_files_next_late(c, g, href, t, answer) ==
    LET starting == g.state = "created"
        r == Request("PROPFIND", href, "Depth" :> <<"1">>, answer.status)
        root == IF starting THEN answer.data.root ELSE g.root
        j == next_yield(root, g.idx)
    IN  IF starting /\ answer.status # 207
        THEN [cached |-> c, sent |-> <<r>>,
              exc |-> error_from_status_code(answer.status), ret |-> NoValue,
              gen |-> [g EXCEPT !.state = "finished", !.at = t,
                                !.requests = @ + 1]]
        ELSE [cached |-> insert_elements(c, root, g.idx, j - 1, t),
              sent |-> IF starting THEN <<r>> ELSE <<>>,
              exc |-> NoExc,
              ret |-> IF j <= Len(root) THEN Yield(child_name(root[j].href))
                      ELSE StopIteration,
              gen |-> [g EXCEPT
                         !.state = IF j <= Len(root) THEN "suspended"
                                   ELSE "finished",
                         !.root = root,
                         !.idx = j + 1,
                         !.yielded = IF j <= Len(root)
                                     THEN Append(@, child_name(root[j].href))
                                     ELSE @,
                         !.at = IF starting THEN t ELSE @,
                         !.clean = @ /\ (starting \/ t = g.at),
                         !.requests = IF starting THEN @ + 1 ELSE @]]

\* one resumption of the generator g at time t (a call of next on it);
\* href is the normalised href of the listing and answer what the server
\* says to the PROPFIND if the body starts now
list_files_next(c, g, href, t, answer) ==
    LET starting == g.state = "created"
        r == Request("PROPFIND", href, "Depth" :> <<"1">>, answer.status)
        root == IF starting THEN answer.data.root ELSE g.root
        j == next_yield(root, g.idx)
    IN  IF starting /\ answer.status # 207
        THEN [cached |-> c, sent |-> <<r>>,
              exc |-> error_from_status_code(answer.status), ret |-> NoValue,
              gen |-> [g EXCEPT !.state = "finished", !.at = t,
                                !.requests = @ + 1]]
        ELSE [cached |-> insert_elements(c, root, g.idx, j, t),
              sent |-> IF starting THEN <<r>> ELSE <<>>,
              exc |-> NoExc,
              ret |-> IF j <= Len(root) THEN Yield(child_name(root[j].href))
                      ELSE StopIteration,
              gen |-> [g EXCEPT
                         !.state = IF j <= Len(root) THEN "suspended"
                                   ELSE "finished",
                         !.root = root,
                         !.idx = j + 1,
                         !.yielded = IF j <= Len(root)
                                     THEN Append(@, child_name(root[j].href))
                                     ELSE @,
                         !.at = IF starting THEN t ELSE @,
                         !.clean = @ /\ (starting \/ t = g.at),
                         !.requests = IF starting THEN @ + 1 ELSE @]]

(***************************************************************************)
(* The environment: the sessions, the arguments of the calls and the       *)
(* answers of the server.                                                  *)
(***************************************************************************)
\* url_data.path of the session
BaseHrefs == {<<"/", "w">>}

\* the hrefs the caller passes: /d, /d//a b and /d/s/
Hrefs == {<<"/", "d">>,
          <<"/", "d", "/", "/", "a", " ", "b">>,
          <<"/", "d", "/", "s", "/">>}

\* the directory the caller lists: /d/
ListHrefs == {<<"/", "d", "/">>}

\* the file the caller reads: /d//a b
ReadHrefs == {<<"/", "d", "/", "/", "a", " ", "b">>}

\* the byte ranges the caller reads
Ranges == {[start |-> 1, end |-> 3], [start |-> 0, end |-> 4]}

\* the moves the caller asks for: /d//a b to /d/s/, /d/s/ to /d//a b and
\* /d to /b
Moves == {[src |-> <<"/", "d", "/", "/", "a", " ", "b">>,
           dest |-> <<"/", "d", "/", "s", "/">>],
          [src |-> <<"/", "d", "/", "s", "/">>,
           dest |-> <<"/", "d", "/", "/", "a", " ", "b">>],
          [src |-> <<"/", "d">>,
           dest |-> <<"/", "b">>]}

\* the hrefs the server knows as collections; the others are files
Collections == {<<"/", "w", "/", "d">>, <<"/", "w", "/", "d", "/", "s">>}

\* the content lengths the server reports for a file to stat
Sizes == {2}

\* the content lengths a listing reports for the file
ListedSizes == {4}

\* the statuses of a failure
Failures == {403, 404, 500}

NoData == [tag |-> "none"]

File(href, n) == Response(href, PropNames, n, FALSE)
Collection(href) == Response(href, PropNames, 0, TRUE)
\* a collection reported without a content length
BareCollection(href) ==
    Response(href, PropNames \ {"getcontentlength"}, 0, TRUE)

\* a collection reported without a resource type
UntypedCollection(href) ==
    Response(href, PropNames \ {"resourcetype"}, 0, TRUE)
\* a file reported without a modification time
UndatedFile(href, n) ==
    Response(href, PropNames \ {"getlastmodified"}, n, FALSE)

\* the malformed answer for a collection: the session's first collection
\* comes without a content length, a collection below it without a type
Malformed(href) ==
    IF \E b \in BaseHrefs : href = b \o <<"/", "d">>
    THEN BareCollection(href) ELSE UntypedCollection(href)

\* the answers to the PROPFIND of stat
StatAnswers(href) ==
    {[status |-> f, data |-> NoData] : f \in Failures}
    \cup (IF href \in Collections
          THEN {[status |-> 207, data |-> Xml(<<Collection(href)>>)],
                [status |-> 207, data |-> Xml(<<Malformed(href)>>)]}
          ELSE {[status |-> 207, data |-> Xml(<<File(href, n)>>)] :
                n \in Sizes}
               \cup {[status |-> 207, data |-> Xml(<<UndatedFile(href, n)>>)] :
                     n \in Sizes})

\* the answers to the PROPFIND of list_files on the collection href: the
\* collection itself, the file "a b" and the collection "s" in it; a
\* collection is named with or without a trailing slash
ListAnswers(href) ==
    {[status |-> f, data |-> NoData] : f \in Failures}
    \cup {[status |-> 207,
           data |-> Xml(<<Collection(self),
                          File(href \o <<"/", "a", "%", "2", "0", "b">>, n),
                          Collection(sub)>>)] :
          self \in {href, href \o <<SLASH>>},
          n \in ListedSizes,
          sub \in {href \o <<"/", "s">>, href \o <<"/", "s", "/">>}}

\* _fixhref of every argument of the callers, computed once for each session
Fixed == [b \in BaseHrefs |->
            [h \in Hrefs \cup ListHrefs \cup ReadHrefs
                   \cup {m.dest : m \in Moves} |-> _fixhref(b, h)]]

\* the answer nobody looks at, when no request is sent
NoAnswer == [status |-> 0, data |-> NoData]

\* the steps the clock makes
TickSteps == {STATCACHEDURATION, STATCACHEDURATION + 1}

(***************************************************************************)
(* History.  last is the call that ran last: its arguments, the item the   *)
(* cache held for its key when it began, the requests it sent and what it  *)
(* raised or returned.  statted remembers, for a key, the Props the first  *)
(* stat of the current lifetime of its entry returned, when that lifetime  *)
(* ends and whether a listing has inserted the key since; any delete or    *)
(* move forgets all of it.                                                 *)
(***************************************************************************)
NoCall == [op |-> "none"]

Call(op, args, key, res) ==
    [op |-> op, args |-> args, key |-> key, at |-> now,
     item |-> lookup(cached, key),
     sent |-> res.sent, exc |-> res.exc, ret |-> res.ret]

\* statted after a stat of key that left the cache c2 and returned ret
\* without raising (exc), at time t
Statted(c2, key, exc, ret, t) ==
    LET live == {k \in DOMAIN statted : t <= statted[k].until}
        add == exc = NoExc /\ key \notin live
    IN  [k \in live \cup (IF add THEN {key} ELSE {}) |->
            IF k = key /\ add
            THEN [props |-> ret, until |-> c2[key].expiration,
                  relisted |-> FALSE]
            ELSE statted[k]]

\* statted after a listing step that inserted the keys ks
Relisted(ks) ==
    [k \in DOMAIN statted |->
        IF k \in ks THEN [statted[k] EXCEPT !.relisted = TRUE] ELSE statted[k]]

(***************************************************************************)
(* The state machine.                                                      *)
(***************************************************************************)
Init ==
    /\ base_href \in BaseHrefs
    /\ cached = <<>>
    /\ now = 0
    /\ gen = NoGen
    /\ last = NoCall
    /\ statted = <<>>
    /\ nops = 0

\* time passes
Tick ==
    /\ nops < MaxOps
    /\ \E d \in TickSteps :
          /\ now + d <= MaxTime
          /\ now' = now + d
    /\ UNCHANGED <<base_href, cached, gen, last, statted, nops>>

\* the caller calls stat(h)
stat ==
    /\ nops < MaxOps
    /\ \E h \in Hrefs :
        LET href == Fixed[base_href][h]
            miss == get(cached, href, now).keyerror
        IN  \E answer \in (IF miss THEN StatAnswers(href) ELSE {NoAnswer}) :
              LET res == stat_href(cached, href, now, answer)
              IN  /\ cached' = res.cached
                  /\ last' = Call("stat", [href |-> h], href, res)
                  /\ statted' = Statted(res.cached, href, res.exc, res.ret, now)
    /\ nops' = nops + 1
    /\ UNCHANGED <<base_href, now, gen>>

\* a delete or a move that went through disturbs a listing under way
Disturbed(exc) ==
    IF gen.state = "suspended" /\ exc = NoExc
    THEN [gen EXCEPT !.clean = FALSE, !.kept = FALSE]
    ELSE gen

\* the caller calls delete(h)
delete ==
    /\ nops < MaxOps
    /\ \E h \in Hrefs, status \in {204} \cup Failures :
        LET href == Fixed[base_href][h]
            res == delete_href(cached, href, status)
        IN  /\ cached' = res.cached
            /\ last' = Call("delete", [href |-> h], href,
                            res @@ [ret |-> NoValue])
            /\ gen' = Disturbed(res.exc)
    /\ statted' = <<>>
    /\ nops' = nops + 1
    /\ UNCHANGED <<base_href, now>>

\* the caller calls move(src, dest)
move ==
    /\ nops < MaxOps
    /\ \E m \in Moves, status \in {201} \cup Failures :
        LET s == m.src
            d == m.dest
            src == Fixed[base_href][s]
            dest == Fixed[base_href][d]
            res == move_href(cached, src, dest, status)
        IN  /\ cached' = res.cached
            /\ last' = Call("move", [src |-> s, dest |-> d, destkey |-> dest],
                            src, res @@ [ret |-> NoValue])
            /\ gen' = Disturbed(res.exc)
    /\ statted' = <<>>
    /\ nops' = nops + 1
    /\ UNCHANGED <<base_href, now>>

\* the caller calls read(h, start, end)
read ==
    /\ nops < MaxOps
    /\ \E h \in ReadHrefs, rg \in Ranges, status \in {206} \cup Failures :
        LET href == Fixed[base_href][h]
            miss == get(cached, href, now).keyerror
        IN  \E answer \in (IF miss THEN StatAnswers(href) ELSE {NoAnswer}) :
              LET st == stat_href(cached, href, now, answer)
                  res == read_href(cached, href, rg.start, rg.end,
                                   now, answer, status)
              IN  \* the GET is answered only if it is sent
                  /\ st.exc # NoExc => status = 206
                  /\ cached' = res.cached
                  /\ last' = Call("read",
                                  [href |-> h, start |-> rg.start,
                                   end |-> rg.end, props |-> st.ret],
                                  href, res)
                  /\ statted' = Statted(res.cached, href, st.exc, st.ret, now)
    /\ nops' = nops + 1
    /\ UNCHANGED <<base_href, now, gen>>

\* the caller calls list_files(h): the generator is created, its body does
\* not run
list_files ==
    /\ nops < MaxOps
    /\ \E h \in ListHrefs : gen' = NewGen(h)
    /\ UNCHANGED <<base_href, cached, now, last, statted, nops>>

\* the caller resumes the generator
next ==
    /\ nops < MaxOps
    /\ gen.state \in {"created", "suspended"}
    /\ LET href == Fixed[base_href][gen.href]
       IN  \E answer \in (IF gen.state = "created" THEN ListAnswers(href)
                          ELSE {NoAnswer}) :
             LET res == list_files_next(cached, gen, href, now, answer)
                 ks == {res.gen.root[i].href :
                            i \in gen.idx..(res.gen.idx - 1) \cap
                                  1..Len(res.gen.root)}
             IN  /\ cached' = res.cached
                 /\ gen' = IF res.gen.state = "finished" THEN Exhausted
                           ELSE res.gen
                 \* the call is remembered with the frame it left
                 /\ last' = Call("next", res.gen, href, res)
                 /\ statted' = Relisted(ks)
    /\ nops' = nops + 1
    /\ UNCHANGED <<base_href, now>>

Next == Tick \/ stat \/ delete \/ move \/ read \/ list_files \/ next

Spec == Init /\ [][Next]_vars

(***************************************************************************)
(* The claims.                                                             *)
(***************************************************************************)
\* the step is a call of op
Calls(op) == nops' = nops + 1 /\ last'.op = op

\* the error the status c stands for
Mapped(c) ==
    IF c = 403 THEN FuseOSError(EACCES)
    ELSE IF c = 404 THEN FuseOSError(ENOENT)
    ELSE HttpError(c)

\* the status that means success to the method
Success(method) ==
    IF method = "PROPFIND" THEN 207
    ELSE IF method = "GET" THEN 206
    ELSE IF method = "DELETE" THEN 204
    ELSE 201

\* C1: when a stat failed on the status c of its PROPFIND, a stat of the
\* same path that follows within the 10 seconds sends no request and raises
\* the error c maps to, as the first call did.
C1_NegativeCaching ==
    [][(/\ last.op = "stat"
        /\ Len(last.sent) = 1
        /\ last.sent[1].status # 207
        /\ Calls("stat")
        /\ last'.key = last.key
        /\ now <= last.at + STATCACHEDURATION)
       => (/\ last'.sent = <<>>
           /\ last'.exc = Mapped(last.sent[1].status))]_vars

\* C2: after a move that went through, the next stat of the source and the
\* next stat of the destination each send a PROPFIND, whatever the cache
\* held before.
C2_MoveLeavesBothEndsUncached ==
    [][(/\ last.op = "move"
        /\ last.exc = NoExc
        /\ Calls("stat")
        /\ last'.key \in {last.key, last.args.destkey})
       => (/\ Len(last'.sent) = 1
           /\ last'.sent[1].method = "PROPFIND")]_vars

\* the listing that has just run to its end did so undisturbed: all its
\* steps ran at the time of its request and no delete or move came between
ListedNow ==
    /\ last.op = "next"
    /\ last.ret = StopIteration
    /\ last.args.clean

\* the element is the listed collection itself
IsSelf(e) == strip_slash(e.href) = last.key

\* the name of the element: the last segment of its decoded href
NameOf(e) == child_name(strip_slash(e.href))

\* the elements of the response that are children of the listed collection
Children == SelectSeq(last.args.root, LAMBDA e : ~IsSelf(e))

\* C3: after a listing has been iterated to its end, a stat of dir/child
\* within the 10 seconds is answered from the cache, for every child in the
\* response, file or collection.
C3_ListingPrepopulatesChildren ==
    (ListedNow /\ now <= last.args.at + STATCACHEDURATION)
    => \A i \in 1..Len(Children) :
          LET href == _fixhref(base_href,
                               last.args.href \o <<SLASH>> \o NameOf(Children[i]))
          IN  /\ ~get(cached, href, now).keyerror
              /\ stat_href(cached, href, now, NoAnswer).sent = <<>>

\* C9: a listing yields the name of every child in the response, files and
\* collections alike, and leaves out the listed collection itself only.
C9_ListingSkipsOnlySelf ==
    (last.op = "next" /\ last.ret = StopIteration)
    => last.args.yielded = [i \in 1..Len(Children) |-> NameOf(Children[i])]

\* C4: a delete that went through leaves no entry under the key stat looks
\* up for the deleted path, whatever time the entry had left.
C4_InvalidationOnDelete ==
    (last.op = "delete" /\ last.exc = NoExc)
    => /\ last.key \notin DOMAIN cached
       /\ Len(stat_href(cached, last.key, now, NoAnswer).sent) = 1

\* a delete went through on a path whose entry was still good
C4_Witness ==
    /\ last.op = "delete"
    /\ last.exc = NoExc
    /\ last.item # NoItem
    /\ last.at <= last.item.expiration
    /\ last.key \notin DOMAIN cached

\* C5 as claimed: once a stat of a path has returned Props, every stat of
\* the path until the entry expires, with no delete or move in between,
\* sends no request and returns the same Props.
C5_CacheHitAvoidsNetwork ==
    [][(/\ Calls("stat")
        /\ last'.key \in DOMAIN statted
        /\ now <= statted[last'.key].until)
       => (/\ last'.sent = <<>>
           /\ last'.exc = NoExc
           /\ last'.ret = statted[last'.key].props)]_vars

\* C5 as amended: the same, when also no listing has inserted the key of
\* the path in between.
C5_CacheHitAvoidsNetworkUnlessListed ==
    [][(/\ Calls("stat")
        /\ last'.key \in DOMAIN statted
        /\ now <= statted[last'.key].until
        /\ ~statted[last'.key].relisted)
       => (/\ last'.sent = <<>>
           /\ last'.exc = NoExc
           /\ last'.ret = statted[last'.key].props)]_vars

\* a stat was answered from the entry an earlier stat had fetched, at the
\* very end of its lifetime
C5_Witness ==
    /\ last.op = "stat"
    /\ last.sent = <<>>
    /\ last.exc = NoExc
    /\ last.key \in DOMAIN statted
    /\ ~statted[last.key].relisted
    /\ last.ret = statted[last.key].props
    /\ last.ret.st_size \in Sizes
    /\ last.at = last.item.expiration

\* C6: a stat of a path whose entry has passed its expiration time sends a
\* PROPFIND and replaces the entry, whether the entry held a body or a
\* failure; and no entry expires later than 10 seconds from now.
C6_CacheExpiry ==
    /\ (last.op = "stat" /\ last.item # NoItem /\ last.at > last.item.expiration)
       => /\ Len(last.sent) = 1
          /\ last.sent[1].method = "PROPFIND"
          /\ last.sent[1].path = last.key
          /\ last.key \in DOMAIN cached
          /\ cached[last.key].expiration = last.at + STATCACHEDURATION
    /\ \A k \in DOMAIN cached : cached[k].expiration <= now + STATCACHEDURATION

\* a stat found the body an earlier stat had stored, expired
C6_Witness ==
    /\ last.op = "stat"
    /\ last.item # NoItem
    /\ last.item.data # None
    /\ last.at > last.item.expiration
    /\ Len(last.sent) = 1

\* the smaller of two numbers
Min(a, b) == IF a < b THEN a ELSE b

\* the call sent a GET
SentGet ==
    /\ last.op = "read"
    /\ last.sent # <<>>
    /\ last.sent[Len(last.sent)].method = "GET"

\* C7: the Range header of the GET of read runs from start to
\* min(end, size) - 1, size being the st_size of the Props stat returned.
C7_RangeClamp ==
    SentGet
    => last.sent[Len(last.sent)].headers["Range"] =
          [lo |-> last.args.start,
           hi |-> Min(last.args.end, last.args.props.st_size) - 1]

\* a read asked for bytes beyond the end of the resource
C7_Witness ==
    /\ SentGet
    /\ last.args.end > last.args.props.st_size
    /\ last.sent[Len(last.sent)].headers["Range"].hi = last.args.props.st_size - 1

\* C8: a call whose request is answered with a status other than the one
\* that means success raises the error the status maps to (EACCES for 403,
\* ENOENT for 404, the generic error with the code otherwise) and returns
\* nothing.
C8_StatusMapping ==
    (last.op # "none" /\ last.sent # <<>>)
    => LET r == last.sent[Len(last.sent)]
       IN  r.status # Success(r.method)
           => /\ last.exc = Mapped(r.status)
              /\ last.ret = NoValue

\* the GET of a read was answered with 404
C8_Witness ==
    /\ SentGet
    /\ last.sent[Len(last.sent)].status = 404
    /\ last.exc = FuseOSError(ENOENT)

\* C10: a delete or a move whose request is answered with a status other
\* than 204, or 201, raises the mapped error and leaves the cache as it was.
C10_FailedMutationKeepsCache ==
    [][((Calls("delete") \/ Calls("move"))
        /\ last'.sent[1].status # Success(last'.sent[1].method))
       => (/\ cached' = cached
           /\ last'.exc = Mapped(last'.sent[1].status))]_vars

\* a delete failed on a path that has an entry
C10_Witness ==
    /\ last.op = "delete"
    /\ last.exc # NoExc
    /\ last.item # NoItem
    /\ last.key \in DOMAIN cached
    /\ cached[last.key] = last.item


\* the requests of the last call that were sent with the method
SentWith(method) ==
    {i \in 1..Len(last.sent) : last.sent[i].method = method}

\* C11: read does its stat first: a GET is sent only when the stat has
\* returned Props, after the PROPFIND of the stat if there was one; when the
\* stat raises, on a fresh answer or on a negative entry, no GET is sent and
\* read raises; and a GET answered with another status than 206 makes read
\* raise and return no bytes.
C11_ReadOrdering ==
    last.op = "read"
    => /\ \A i \in SentWith("GET") :
             /\ i = Len(last.sent)
             /\ last.args.props # NoValue
       /\ \A i \in SentWith("PROPFIND") : i = 1
       /\ last.args.props = NoValue
             => (SentWith("GET") = {} /\ last.exc # NoExc /\ last.ret = NoValue)
       /\ last.args.props # NoValue => Cardinality(SentWith("GET")) = 1
       /\ \A i \in SentWith("GET") :
             last.sent[i].status # 206
             => (last.exc # NoExc /\ last.ret = NoValue)
       /\ last.ret = Bytes
             => \E i \in SentWith("GET") : last.sent[i].status = 206

\* a read found a negative entry: it raised and sent nothing
C11_Witness ==
    /\ last.op = "read"
    /\ last.item # NoItem
    /\ last.item.data = None
    /\ last.at <= last.item.expiration
    /\ last.sent = <<>>
    /\ last.exc = InvalidStatus


\* the exceptions the parsing of a metadata document raises
ParseErrors ==
    {ParseError(what) : what \in {"IndexError", "AttributeError", "TypeError"}}

\* C12: a stat (alone or as the first step of a read) whose metadata body,
\* fresh from a 207 answer or taken from the cache, lacks the content
\* length, the modification time or the resource type raises an error and
\* returns nothing; the Props a stat returns have the length and the type
\* the body states, never a default.
C12_MalformedMetadataFails ==
    (/\ last.op \in {"stat", "read"}
     /\ last.key \in DOMAIN cached
     /\ cached[last.key].data # None)
    => LET root == cached[last.key].data.root
       IN  /\ (root = <<>> \/ root[1].present # PropNames)
                 => /\ last.exc \in ParseErrors
                    /\ last.ret = NoValue
                    /\ SentWith("GET") = {}
           /\ (last.op = "stat" /\ last.ret # NoValue)
                 => /\ root # <<>>
                    /\ root[1].present = PropNames
                    /\ last.ret.st_size = root[1].length
                    /\ last.ret.st_mode = IF root[1].collection
                                          THEN S_IFDIR_0o500
                                          ELSE S_IFREG_0o400

\* a stat served from the cache found a body without its resource type
C12_Witness ==
    /\ last.op = "stat"
    /\ last.sent = <<>>
    /\ last.item # NoItem
    /\ last.item.data # None
    /\ "resourcetype" \notin last.item.data.root[1].present
    /\ last.exc = ParseError("TypeError")


\* the status that lets a call go on after a request with the method
Expected(method) ==
    CASE method = "PROPFIND" -> 207
      [] method = "GET" -> 206
      [] method = "DELETE" -> 204
      [] method = "MOVE" -> 201

\* C13: no call asks twice.  A stat sends at most one request; a delete and
\* a move send exactly one; a listing, once it is iterated, has sent exactly
\* one, in its first resumption; a read sends at most two, one PROPFIND (of
\* its stat) and one GET; and in no call is a request sent after one that
\* was answered with a failure, or a method used twice.
C13_NoLocalRetry ==
    last.op # "none"
    => /\ last.op = "stat" => Len(last.sent) <= 1
       /\ last.op \in {"delete", "move"} => Len(last.sent) = 1
       /\ last.op = "read"
             => /\ Len(last.sent) <= 2
                /\ Cardinality(SentWith("PROPFIND")) <= 1
                /\ Cardinality(SentWith("GET")) <= 1
       /\ last.op = "next"
             => /\ Len(last.sent) <= 1
                /\ last.args.requests = 1
       /\ \A i \in 1..Len(last.sent) :
             /\ last.sent[i].status # Expected(last.sent[i].method)
                   => i = Len(last.sent)
             /\ \A j \in 1..Len(last.sent) :
                   last.sent[j].method = last.sent[i].method => j = i

\* a read sent its two requests and the second one failed
C13_Witness ==
    /\ last.op = "read"
    /\ Len(last.sent) = 2
    /\ last.sent[1].method = "PROPFIND"
    /\ last.sent[2].method = "GET"
    /\ last.sent[2].status \in Failures
    /\ last.exc # NoExc


\* s begins with p
startswith(s, p) ==
    Len(p) <= Len(s) /\ SubSeq(s, 1, Len(p)) = p

\* k is a value _fixhref produces in the session: it is the percent-encoding
\* of the base path followed by a normalised href, and then _fixhref maps
\* that href to k
Produced(k) ==
    LET u == unquote(k)
    IN  /\ startswith(u, base_href)
        /\ _fixhref(base_href, SubSeq(u, Len(base_href) + 1, Len(u))) = k

\* C14: in every reachable state every key of the cache is a value _fixhref
\* produces, so that the key a listing stores a child under is the key a
\* stat of that child looks up.
C14_CacheKeyInvariant ==
    \A k \in DOMAIN cached : Produced(k)


(***************************************************************************)
(* _fixhref on its own: the sessions differ in the path of their URL, and  *)
(* the caller passes any short href.                                       *)
(***************************************************************************)
\* the longest href passed to _fixhref
MaxHref == 3

\* url_data.path of http://host, http://host/, http://host/w and
\* http://host/w/
FixBases == {<<>>, <<"/">>, <<"/", "w">>, <<"/", "w", "/">>}

\* the characters of an href
HrefChars == {"/", "a", " "}

FixHrefs == UNION {[1..n -> HrefChars] : n \in 0..MaxHref}

\* a session on any of the URLs
InitFix ==
    /\ base_href \in FixBases
    /\ cached = <<>>
    /\ now = 0
    /\ gen = NoGen
    /\ last = NoCall
    /\ statted = <<>>
    /\ nops = 0

\* self._fixhref(h)
call_fixhref ==
    /\ \E h \in FixHrefs :
          last' = [op |-> "_fixhref", args |-> [href |-> h],
                   ret |-> _fixhref(base_href, h)]
    /\ UNCHANGED <<base_href, cached, now, gen, statted, nops>>

NextFix == call_fixhref

SpecFix == InitFix /\ [][NextFix]_vars

\* C15: for every base path of a session and every href, _fixhref returns
\* (percent-encoded) the base path followed by the href with its repeated
\* separators collapsed and its trailing separator stripped, so that the
\* result has no repeated separator and no trailing separator.
C15_PathNormalization ==
    last.op = "_fixhref"
    => /\ unquote(last.ret)
            = base_href \o strip_slash(collapse(last.args.href))
       /\ ~has_dslash(last.ret)
       /\ ~endswith(last.ret, SLASH)


(***************************************************************************)
(* DavCache on its own: any caller may insert, get and remove entries,     *)
(* with and without parents.                                               *)
(***************************************************************************)
\* the keys of the callers: /w, /w/, /w/d, /w/d/a and /w/dd
CacheKeys ==
    {<<"/", "w">>, <<"/", "w", "/">>, <<"/", "w", "/", "d">>,
     <<"/", "w", "/", "d", "/", "a">>, <<"/", "w", "/", "d", "d">>}

\* the data inserted: None or a document
CacheData == {None, Xml(<<>>)}

\* a call on the cache, remembered with the item the cache held for the key
\* when it began
CacheCall(op, args, key, ret) ==
    [op |-> op, args |-> args, key |-> key, at |-> now,
     item |-> lookup(cached, key), ret |-> ret]

\* DavCache()
InitCache ==
    /\ base_href \in BaseHrefs
    /\ cached = <<>>
    /\ now = 0
    /\ gen = NoGen
    /\ last = NoCall
    /\ statted = <<>>
    /\ nops = 0

\* davcache.insert(k, data, STATCACHEDURATION)
call_insert ==
    /\ nops < MaxOps
    /\ \E k \in CacheKeys, data \in CacheData :
          /\ cached' = insert(cached, k, data, STATCACHEDURATION, now)
          /\ last' = CacheCall("insert", [data |-> data], k, NoValue)
    /\ nops' = nops + 1
    /\ UNCHANGED <<base_href, now, gen, statted>>

\* davcache.get(k)
call_get ==
    /\ nops < MaxOps
    /\ \E k \in CacheKeys :
          LET g == get(cached, k, now)
          IN  /\ cached' = g.cached
              /\ last' = CacheCall("get", <<>>, k,
                                   [keyerror |-> g.keyerror, data |-> g.data])
    /\ nops' = nops + 1
    /\ UNCHANGED <<base_href, now, gen, statted>>

\* davcache.remove_entry(k, parents)
call_remove_entry ==
    /\ nops < MaxOps
    /\ \E k \in CacheKeys, parents \in BOOLEAN :
          /\ cached' = remove_entry(cached, k, parents)
          /\ last' = CacheCall("remove_entry", [parents |-> parents], k,
                               NoValue)
    /\ nops' = nops + 1
    /\ UNCHANGED <<base_href, now, gen, statted>>

NextCache == Tick \/ call_insert \/ call_get \/ call_remove_entry

SpecCache == InitCache /\ [][NextCache]_vars

\* the keys the claim says remove_entry(href, parents) removes: the key
\* itself, or every part of href that ends where href ends or before a
\* slash, and that part followed by a slash
Footprint(href, parents) ==
    IF ~parents THEN {href}
    ELSE UNION {{SubSeq(href, 1, i), SubSeq(href, 1, i) \o <<SLASH>>} :
                i \in {j \in 0..Len(href) :
                          j = Len(href) \/ href[j + 1] = SLASH}}

\* c without the keys of gone, every other entry as it was
Without(c, gone) == [k \in DOMAIN c \ gone |-> c[k]]

\* C16: remove_entry(path, parents=False) removes exactly the entry keyed
\* path, if there is one; remove_entry(path, parents=True) removes exactly
\* the entries keyed by a slash-joined prefix of the segments of path or by
\* such a prefix followed by a slash; every other entry keeps its body and
\* its expiration.
C16_InvalidationFootprint ==
    [][(nops' = nops + 1 /\ last'.op = "remove_entry")
       => cached' = Without(cached,
                            Footprint(last'.key, last'.args.parents))]_vars

\* a remove_entry with parents removed the entry of its key and left others
C16_Witness ==
    /\ last.op = "remove_entry"
    /\ last.args.parents
    /\ last.item # NoItem
    /\ last.key \notin DOMAIN cached
    /\ cached # <<>>

\* C17: get on an expired entry removes it and raises KeyError, the other
\* entries unchanged; get on an entry that is not expired returns its body
\* (None for a negative entry) and get on an absent key raises KeyError,
\* both without a change of the mapping; and no entry goes away for its
\* expiry except in a get on its own key: an entry that goes away in a step
\* is the expired entry of a get or in the footprint of a remove_entry.
C17_LazyEviction ==
    [][/\ (nops' = nops + 1 /\ last'.op = "get")
            => LET k == last'.key
                   item == lookup(cached, k)
               IN  IF item = NoItem
                   THEN last'.ret.keyerror /\ cached' = cached
                   ELSE IF now > item.expiration
                   THEN last'.ret.keyerror /\ cached' = Without(cached, {k})
                   ELSE /\ ~last'.ret.keyerror
                        /\ last'.ret.data = item.data
                        /\ cached' = cached
       /\ \A k \in DOMAIN cached \ DOMAIN cached' :
             \/ /\ last'.op = "get"
                /\ last'.key = k
                /\ now > cached[k].expiration
             \/ /\ last'.op = "remove_entry"
                /\ k \in Footprint(last'.key, last'.args.parents)]_vars

\* a get found its entry expired and removed it, and only it
C17_Witness ==
    /\ last.op = "get"
    /\ last.item # NoItem
    /\ last.at > last.item.expiration
    /\ last.ret.keyerror
    /\ last.key \notin DOMAIN cached
    /\ cached # <<>>


\* the call of list_files creates the generator and does nothing else: no
\* request, no change of the cache
LazyListing ==
    (gen' # gen /\ gen'.state = "created")
    => (cached' = cached /\ last' = last /\ gen'.requests = 0)

\* a resumption that goes through sends the PROPFIND if and only if it is
\* the first one, inserts the elements it passes, the one whose name it
\* yields included, each with its own response and a new expiration, and
\* touches no other entry: what it has not reached it has not inserted
InsertsThenYields ==
    (Calls("next") /\ last'.exc = NoExc)
    => LET f == last'.args
           reached == gen.idx..Min(f.idx - 1, Len(f.root))
           ks == {f.root[i].href : i \in reached}
       IN  /\ (gen.state = "created") = (Len(last'.sent) = 1)
           /\ (gen.state = "suspended") = (last'.sent = <<>>)
           /\ \A i \in reached :
                 lookup(cached', f.root[i].href)
                    = CacheItem(Xml(<<f.root[i]>>), now + STATCACHEDURATION)
           /\ \A k \in (DOMAIN cached \cup DOMAIN cached') \ ks :
                 lookup(cached', k) = lookup(cached, k)
           /\ last'.ret # StopIteration
                 => /\ f.idx - 1 \in reached
                    /\ last'.ret = Yield(child_name(f.root[f.idx - 1].href))

\* every element a suspended listing has passed has its entry
ReachedAreCached ==
    \A i \in 1..(gen.idx - 1) : gen.root[i].href \in DOMAIN cached

\* C18 as it is stated: the listing is lazy, it inserts before it yields,
\* and at any point of a partially consumed listing every name already
\* yielded has a cache entry.
C18_ListingInsertsBeforeYield ==
    [][/\ LazyListing
       /\ InsertsThenYields
       /\ (gen.state = "suspended" => ReachedAreCached)']_vars

\* C18: list_files sends its PROPFIND only when the iteration begins; each
\* resumption inserts the entries it reaches before it yields, and inserts
\* nothing it has not reached; at any point of a partially consumed listing
\* every name already yielded has a cache entry unless a delete or a move
\* went through since the iteration began; an entry reached after such a
\* delete is inserted again.
C18_ListingInsertsBeforeYieldUnlessRemoved ==
    [][/\ LazyListing
       /\ InsertsThenYields
       /\ ((gen.state = "suspended" /\ gen.kept) => ReachedAreCached)']_vars

\* a delete or a move went through while the listing was suspended, and the
\* next resumption inserted the sub-collection and yielded its name
C18_Witness ==
    /\ last.op = "next"
    /\ last.sent = <<>>
    /\ ~last.args.kept
    /\ last.ret = Yield(<<"s">>)
    /\ last.key \o <<"/", "s">> \in DOMAIN cached
    /\ cached[last.key \o <<"/", "s">>].expiration = last.at + STATCACHEDURATION


\* the key k is strictly below the directory keyed dir
Below(k, dir) ==
    /\ Len(k) > Len(dir) + 1
    /\ startswith(k, dir \o <<SLASH>>)

StatMissed(k) ==
    /\ last'.op \in {"stat", "read"}
    /\ last'.key = k
    /\ last'.sent # <<>>
    /\ last'.sent[1].method = "PROPFIND"

\* the call that just ran was a resumption of a listing that inserted k
Reinserted(k) ==
    /\ last'.op = "next"
    /\ last'.exc = NoExc
    /\ \E i \in gen.idx..Min(last'.args.idx - 1, Len(last'.args.root)) :
          last'.args.root[i].href = k

\* C20: a stat answered from the cache, from a positive or a negative
\* entry, leaves the cache as it is, so the expiration of the entry stays
\* its insertion time plus STATCACHEDURATION; the entry of a key changes
\* only when a stat misses on the key or a listing inserts it again, and
\* then its expiration is the time of that call plus STATCACHEDURATION.
C20_HitKeepsLifetime ==
    [][/\ (Calls("stat") /\ last'.sent = <<>>) => cached' = cached
       /\ \A k \in DOMAIN cached \cap DOMAIN cached' :
             cached'[k] # cached[k]
             => /\ StatMissed(k) \/ Reinserted(k)
                /\ cached'[k].expiration = now + STATCACHEDURATION]_vars

\* a stat was answered from the cache at the last moment of the entry, and
\* the entry still expires then
C20_Witness ==
    /\ last.op = "stat"
    /\ last.sent = <<>>
    /\ last.item # NoItem
    /\ last.at = last.item.expiration
    /\ last.at > 0
    /\ cached[last.key] = last.item

====
